---- MODULE Spec2Model ----
(***************************************************************************)
(* The stream-selection and acquisition pipeline of app.py: the throttled  *)
(* DownloadMonitor, sanitize_filename, merge_audio_video and the download  *)
(* action with its adaptive (video + audio + merge) and progressive        *)
(* branches.                                                               *)
(*                                                                         *)
(* Strings that the program computes with (file names, paths) are          *)
(* sequences of one-character strings.  Time is counted in ticks of 50 ms  *)
(* on a clock that does not run backwards; a Python float quotient a / b   *)
(* is kept exact as the pair <<a, b>>.                                     *)
(*                                                                         *)
(* The provider, ffmpeg and the Streamlit widgets are the environment: the *)
(* provider reports any bytes_remaining and may raise, ffmpeg ends in any  *)
(* of ToolOutcomes, and the widgets take whatever value they are handed.   *)
(* An acquisition is followed from a download folder that holds none of    *)
(* its three paths.                                                        *)
(***************************************************************************)
EXTENDS Integers, Sequences, FiniteSets, TLC

VARIABLES
    pc,                \* position of the script
    all_streams,       \* yt.streams.filter(mp4, video).order_by(resolution).desc()
    audio_streams,     \* yt.streams.filter(only_audio=True).order_by('abr').desc()
    default_filename,  \* selected_stream.default_filename (the same for all of a video)
    selected_res,      \* res_options[selected_label], None before a selection
    clean_filename,
    final_path,
    video_path,
    audio_path,
    out_file,
    success,
    monitor,           \* st.session_state.monitor
    now,               \* time.time(), in ticks
    disk,              \* the files under the download folder: path -> content state
    emitted,           \* the sink: ProgressEvents since the phase began
    run                \* the sink and the steps of the current user action

vars == << pc, all_streams, audio_streams, default_filename, selected_res,
           clean_filename, final_path, video_path, audio_path, out_file,
           success, monitor, now, disk, emitted, run >>

None == "None"

-----------------------------------------------------------------------------
(* Bounds *)

MaxSize == 2        \* largest filesize a stream reports
MaxTime == 7        \* last tick of the clock
MaxEmits == 2       \* emissions followed per phase
MaxNameLen == 3     \* length of the names sanitize_filename is tried on
MaxStreams == 2     \* encodings in a listed catalog

-----------------------------------------------------------------------------
(* Program constants *)

\* 0.1 s, the throttle of on_progress, in ticks of 50 ms
ThrottleTicks == 2

Illegal == { "<", ">", ":", "\"", "/", "\\", "|", "?", "*" }

TEMP_VIDEO == << "t", "e", "m", "p", "_", "v", "i", "d", "e", "o", "_" >>
TEMP_AUDIO == << "t", "e", "m", "p", "_", "a", "u", "d", "i", "o", "_" >>

\* the title "Foo: Bar/Baz?"
FooTitle == << "F", "o", "o", ":", " ", "B", "a", "r", "/", "B", "a", "z", "?" >>

-----------------------------------------------------------------------------
(* Pure helpers *)

\* re.sub with count=1: only the first illegal character is stripped
sanitize_filename_first_only(name) ==
    IF \E i \in 1..Len(name) : name[i] \in Illegal
    THEN LET k == CHOOSE i \in 1..Len(name) :
                      /\ name[i] \in Illegal
                      /\ \A j \in 1..i - 1 : name[j] \notin Illegal
         IN  SubSeq(name, 1, k - 1) \o SubSeq(name, k + 1, Len(name))
    ELSE name

\* re.sub(r'[<>:"/\\|?*]', '', name)
RECURSIVE sanitize_filename(_)
sanitize_filename(name) ==
    IF name = << >> THEN << >>
    ELSE IF Head(name) \in Illegal
         THEN sanitize_filename(Tail(name))
         ELSE << Head(name) >> \o sanitize_filename(Tail(name))

get_download_folder == << "~", "/", "D" >>

\* os.path.join(a, b) on a POSIX system
path_join(a, b) ==
    IF b # << >> /\ Head(b) = "/" THEN b
    ELSE IF a = << >> \/ a[Len(a)] = "/" THEN a \o b
    ELSE a \o << "/" >> \o b

\* Stream.download(output_path, filename=..., filename_prefix=...) returns the
\* path of the file it writes
download_path(output_path, filename, prefix) ==
    path_join(output_path, prefix \o filename)

HasPrefix(s, p) ==
    /\ Len(s) >= Len(p)
    /\ SubSeq(s, 1, Len(p)) = p

\* the last path component
RECURSIVE basename(_)
basename(p) ==
    IF p = << >> THEN << >>
    ELSE IF \E i \in 1..Len(p) : p[i] = "/"
         THEN basename(Tail(p))
         ELSE p

-----------------------------------------------------------------------------
(* DownloadMonitor *)

\* DownloadMonitor.__init__
NewMonitor == [ bar |-> FALSE, total_size |-> 0, last_time |-> 0, last_bytes |-> 0 ]

\* set_ui without lines 45-46: the samples of the phase before are kept
set_ui_keeps_samples(m, total_size, t) ==
    [ m EXCEPT !.bar = TRUE, !.total_size = total_size ]

\* DownloadMonitor.set_ui(bar, text, total_size) at time t
set_ui(m, total_size, t) ==
    [ bar |-> TRUE, total_size |-> total_size, last_time |-> t,
      last_bytes |-> total_size ]

\* the throttle with >= in place of >
ShouldEmit_at_threshold(m, current_time, bytes_remaining) ==
    current_time - m.last_time >= ThrottleTicks \/ bytes_remaining = 0

\* line 53 without `or bytes_remaining == 0`
ShouldEmit_throttle_only(m, current_time, bytes_remaining) ==
    current_time - m.last_time > ThrottleTicks

\* line 53 with the final emission made once only
ShouldEmit_final_once(m, current_time, bytes_remaining) ==
    \/ current_time - m.last_time > ThrottleTicks
    \/ bytes_remaining = 0 /\ m.last_bytes # 0

\* the condition of line 53
ShouldEmit(m, current_time, bytes_remaining) ==
    current_time - m.last_time > ThrottleTicks \/ bytes_remaining = 0

\* line 57 without its guard: the quotient has the denominator 0 when
\* total_size is 0
Percent_unguarded(total_size, bytes_remaining) ==
    << total_size - bytes_remaining, total_size >>

\* pct = downloaded / self.total_size if self.total_size > 0 else 0
Percent(total_size, bytes_remaining) ==
    IF total_size > 0 THEN << total_size - bytes_remaining, total_size >>
    ELSE << 0, 1 >>

\* min(pct, 1.0), the argument of self.bar.progress
BarValue(pct) ==
    IF pct[1] > pct[2] THEN << 1, 1 >> ELSE pct

\* lines 63-65 without the guard
Speed_unguarded(bytes_diff, time_diff) == << bytes_diff, time_diff >>

\* speed = bytes_diff / time_diff if time_diff > 0, else 0
Speed(bytes_diff, time_diff) ==
    IF time_diff > 0 THEN << bytes_diff, time_diff >> ELSE << 0, 1 >>

\* the ProgressEvent that lines 56-72 hand to the bar and the text
ProgressEvent(m, current_time, bytes_remaining) ==
    LET downloaded == m.total_size - bytes_remaining
        pct        == Percent(m.total_size, bytes_remaining)
        time_diff  == current_time - m.last_time
        bytes_diff == m.last_bytes - bytes_remaining
    IN  [ time            |-> current_time,
          bytes_remaining |-> bytes_remaining,
          bar             |-> BarValue(pct),
          pct             |-> pct,
          downloaded      |-> downloaded,
          total           |-> m.total_size,
          time_diff       |-> time_diff,
          bytes_diff      |-> bytes_diff,
          speed           |-> Speed(bytes_diff, time_diff) ]

\* line 76 left out: last_bytes keeps the total
Track_time_only(m, current_time, bytes_remaining) ==
    [ m EXCEPT !.last_time = current_time ]

\* lines 75-76
Track(m, current_time, bytes_remaining) ==
    [ m EXCEPT !.last_time = current_time, !.last_bytes = bytes_remaining ]

\* DownloadMonitor.on_progress(stream, chunk, bytes_remaining) at time
\* current_time: the monitor afterwards and the events emitted
on_progress(m, current_time, bytes_remaining) ==
    IF ~m.bar THEN [ monitor |-> m, events |-> << >> ]
    ELSE IF ShouldEmit(m, current_time, bytes_remaining)
         THEN [ monitor |-> Track(m, current_time, bytes_remaining),
                events  |-> << ProgressEvent(m, current_time, bytes_remaining) >> ]
         ELSE [ monitor |-> m, events |-> << >> ]

-----------------------------------------------------------------------------
(* merge_audio_video *)

\* what running ffmpeg can come to
ToolOutcomes == { "absent", "spawn_error", "nonzero", "nonzero_partial", "ok" }

\* subprocess.run(cmd, check=True, ...): the exception raised, or "none"
subprocess_run(tool) ==
    CASE tool = "absent"          -> "FileNotFoundError"
      [] tool = "spawn_error"     -> "PermissionError"
      [] tool = "nonzero"         -> "CalledProcessError"
      [] tool = "nonzero_partial" -> "CalledProcessError"
      [] tool = "ok"              -> "none"

\* what ffmpeg -y leaves at output_path
ToolWrites(tool, d, output_path) ==
    CASE tool = "ok"              -> [ p \in DOMAIN d \cup { output_path } |->
                                         IF p = output_path THEN "complete" ELSE d[p] ]
      [] tool = "nonzero_partial" -> [ p \in DOMAIN d \cup { output_path } |->
                                         IF p = output_path THEN "partial" ELSE d[p] ]
      [] OTHER                    -> d

\* a handler that catches OSError only
ExceptionClasses_os_only == { "FileNotFoundError", "PermissionError" }

\* the exceptions `except Exception` catches
ExceptionClasses == { "FileNotFoundError", "PermissionError", "CalledProcessError" }

\* merge_audio_video whose FileNotFoundError handler returns True
merge_audio_video_absent_true(tool) ==
    LET exc == subprocess_run(tool)
    IN  IF exc = "none"
        THEN [ ret |-> TRUE, error |-> "none", raised |-> "none" ]
        ELSE IF exc = "FileNotFoundError"
        THEN [ ret |-> TRUE, error |-> "FFmpeg not found", raised |-> "none" ]
        ELSE [ ret |-> FALSE, error |-> "Error merging files", raised |-> "none" ]

\* the try/except of merge_audio_video: the value returned, the diagnostic
\* given to st.error and the exception that leaves the function
merge_audio_video(tool) ==
    LET exc == subprocess_run(tool)
    IN  IF exc = "none"
        THEN [ ret |-> TRUE, error |-> "none", raised |-> "none" ]
        ELSE IF exc = "FileNotFoundError"
        THEN [ ret |-> FALSE, error |-> "FFmpeg not found", raised |-> "none" ]
        ELSE IF exc \in ExceptionClasses
        THEN [ ret |-> FALSE, error |-> "Error merging files", raised |-> "none" ]
        ELSE [ ret |-> FALSE, error |-> "none", raised |-> exc ]

-----------------------------------------------------------------------------
(* The catalog of a fetched video *)

Resolutions == { "720p" }

Encodings ==
    [ resolution : Resolutions \cup { None }, is_progressive : BOOLEAN,
      filesize : 0..MaxSize ]

\* the catalogs the acquisition is followed on: no stream, or one of any kind
Catalogs == { << >> } \cup { << e >> : e \in Encodings }

AudioCatalogs == { << >> } \cup { << a >> : a \in [ filesize : 0..MaxSize ] }

Titles == { << "a", "?", "b" >> }

\* a resolution that is neither None nor ""
Truthy(res) == res # None /\ res # ""

\* the loop of lines 145-147 without the `not in resolutions` test: the last
\* stream seen at a resolution wins
RECURSIVE AddStreams_last_wins(_, _)
AddStreams_last_wins(resolutions, streams) ==
    IF streams = << >> THEN resolutions
    ELSE LET s == Head(streams)
         IN  IF Truthy(s.resolution)
             THEN AddStreams_last_wins(
                      [ r \in DOMAIN resolutions \cup { s.resolution } |->
                          IF r = s.resolution THEN s ELSE resolutions[r] ],
                      Tail(streams))
             ELSE AddStreams_last_wins(resolutions, Tail(streams))

\* lines 142-147: the first stream seen at a resolution wins
RECURSIVE AddStreams(_, _)
AddStreams(resolutions, streams) ==
    IF streams = << >> THEN resolutions
    ELSE LET s == Head(streams)
         IN  IF Truthy(s.resolution) /\ s.resolution \notin DOMAIN resolutions
             THEN AddStreams(
                      [ r \in DOMAIN resolutions \cup { s.resolution } |->
                          IF r = s.resolution THEN s ELSE resolutions[r] ],
                      Tail(streams))
             ELSE AddStreams(resolutions, Tail(streams))

resolutions == AddStreams(<< >>, all_streams)

\* the keys of the dict of lines 142-147 in insertion order, which is the
\* order of resolutions.items() and of the dropdown
RECURSIVE AddKeys(_, _)
AddKeys(keys, streams) ==
    IF streams = << >> THEN keys
    ELSE LET s == Head(streams)
         IN  IF Truthy(s.resolution)
                  /\ \A i \in 1..Len(keys) : keys[i] # s.resolution
             THEN AddKeys(Append(keys, s.resolution), Tail(streams))
             ELSE AddKeys(keys, Tail(streams))

resolution_keys == AddKeys(<< >>, all_streams)

\* best_audio = ....first(): None when there is no audio-only stream
HasBestAudio == audio_streams # << >>
best_audio == Head(audio_streams)

\* audio_size = best_audio.filesize if best_audio else 0
audio_size == IF HasBestAudio THEN best_audio.filesize ELSE 0

\* an estimate that leaves the audio track out
est_size_video_only(stream) == stream.filesize

\* lines 155-162: est_size of a surfaced stream
est_size(stream) ==
    IF ~stream.is_progressive THEN stream.filesize + audio_size
    ELSE stream.filesize

\* lines 153-165: the dropdown, one option for each item of resolutions
res_options ==
    [ i \in 1..Len(resolution_keys) |->
        LET stream == resolutions[resolution_keys[i]]
        IN  [ res      |-> resolution_keys[i],
              high_res |-> ~stream.is_progressive,
              est_size |-> est_size(stream) ] ]

selected_stream == resolutions[selected_res]

\* is_adaptive = not selected_stream.is_progressive
is_adaptive == ~selected_stream.is_progressive

-----------------------------------------------------------------------------
(* The script *)

NoPath == << >>

\* what a user action has done so far, and what the sink has been told
NewRun ==
    [ set_ui  |-> 0,          \* phases begun
      began   |-> 0,          \* when the current phase began
      totals  |-> << >>,      \* the totals the phases were begun with
      zero_calls |-> 0,       \* on_progress calls of the phase with bytes_remaining = 0
      invoked |-> [ video |-> 0, audio |-> 0, merge |-> 0, prog |-> 0 ],
      downloads |-> 0,        \* download calls made
      video   |-> "none",     \* each step: none, running, ok or failed
      audio   |-> "none",
      merge   |-> "none",
      prog    |-> "none",
      tool    |-> "none",     \* what the ffmpeg invocation came to
      fetched |-> FALSE,      \* the provider has delivered bytes
      written |-> {},         \* paths written by this action
      errors  |-> << >>,      \* st.error diagnostics
      complete |-> 0,         \* "Download Complete!" statuses
      saved_to |-> NoPath ]   \* the path of st.success

Downloading == pc \in { "video", "audio", "prog" }

Init ==
    /\ pc = "page"
    /\ all_streams = << >>
    /\ audio_streams = << >>
    /\ default_filename = << >>
    /\ selected_res = None
    /\ clean_filename = << >>
    /\ final_path = NoPath
    /\ video_path = NoPath
    /\ audio_path = NoPath
    /\ out_file = NoPath
    /\ success = FALSE
    /\ monitor = NewMonitor
    /\ now = 1
    /\ disk = << >>
    /\ emitted = << >>
    /\ run = NewRun

\* time.time() moves on.  Only set_ui and on_progress read the clock and only
\* differences of readings are used, so time is followed from the start of
\* the first transfer.
Tick ==
    /\ Downloading
    /\ now < MaxTime
    /\ now' = now + 1
    /\ UNCHANGED << pc, all_streams, audio_streams, default_filename,
                    selected_res, clean_filename, final_path, video_path,
                    audio_path, out_file, success, monitor, disk, emitted, run >>

\* lines 116-147: a link is fetched.  A video has file names of its own, so
\* none of the paths of its acquisition is on disk yet.
Fetch ==
    /\ pc = "page"
    /\ \E c \in Catalogs, a \in AudioCatalogs, t \in Titles :
         /\ all_streams' = c
         /\ audio_streams' = a
         /\ default_filename' = t
    /\ pc' = "select"
    /\ selected_res' = None
    /\ disk' = << >>
    /\ UNCHANGED << clean_filename, final_path, video_path, audio_path,
                    out_file, success, monitor, now, emitted, run >>

\* lines 149-150
NoStreams ==
    /\ pc = "select"
    /\ DOMAIN resolutions = {}
    /\ pc' = "end"
    /\ UNCHANGED << all_streams, audio_streams, default_filename, selected_res,
                    clean_filename, final_path, video_path, audio_path,
                    out_file, success, monitor, now, disk, emitted, run >>

\* lines 167-182: a resolution is chosen and its download button pressed
Click ==
    /\ pc = "select"
    /\ \E res \in DOMAIN resolutions : selected_res' = res
    /\ clean_filename' = sanitize_filename(default_filename)
    /\ final_path' = path_join(get_download_folder, clean_filename')
    /\ video_path' = NoPath
    /\ audio_path' = NoPath
    /\ out_file' = NoPath
    /\ success' = FALSE
    /\ run' = NewRun
    /\ emitted' = << >>
    /\ pc' = "start"
    /\ UNCHANGED << all_streams, audio_streams, default_filename, monitor,
                    now, disk >>

\* the except clause of lines 220-221: the error is shown
Except(r, e) == [ r EXCEPT !.errors = Append(@, e) ]

\* an exception that is swallowed where it is raised: the script goes on
AfterRaise_goes_on == "video_done"

\* an exception leaves the try block of lines 184-218: the rest is skipped
AfterRaise == "end"

-----------------------------------------------------------------------------
(* The provider's transfer *)

\* the download called without the sanitized name
prog_filename_default == default_filename

\* line 213: filename=clean_filename
prog_filename == clean_filename

\* the file a running download writes
TargetPath ==
    CASE pc = "video" -> download_path(get_download_folder, default_filename, TEMP_VIDEO)
      [] pc = "audio" -> download_path(get_download_folder, default_filename, TEMP_AUDIO)
      [] pc = "prog"  -> download_path(get_download_folder, prog_filename, << >>)

WriteFile(d, path, content) ==
    [ p \in DOMAIN d \cup { path } |-> IF p = path THEN content ELSE d[p] ]

RemoveFile(d, path) ==
    [ p \in DOMAIN d \ { path } |-> d[p] ]

\* the provider writes a chunk and calls the callback with the bytes it says
\* remain
Chunk ==
    /\ Downloading
    /\ \E bytes_remaining \in 0..MaxSize + 1 :
         LET r == on_progress(monitor, now, bytes_remaining)
         IN  /\ Len(emitted) + Len(r.events) <= MaxEmits
             /\ monitor' = r.monitor
             /\ emitted' = emitted \o r.events
             /\ run' = [ run EXCEPT
                           !.fetched = TRUE,
                           !.written = @ \cup { TargetPath },
                           !.zero_calls = IF bytes_remaining = 0 /\ @ <= MaxEmits
                                          THEN @ + 1 ELSE @ ]
    /\ disk' = WriteFile(disk, TargetPath, "partial")
    /\ UNCHANGED << pc, all_streams, audio_streams, default_filename,
                    selected_res, clean_filename, final_path, video_path,
                    audio_path, out_file, success, now >>

\* a download returns the path of the finished file
Finish(step) ==
    /\ disk' = WriteFile(disk, TargetPath, "complete")
    /\ run' = [ run EXCEPT ![step] = "ok", !.written = @ \cup { TargetPath } ]

\* a download raises: the file stays as the transfer left it
Fail(step) ==
    /\ run' = Except([ run EXCEPT ![step] = "failed" ], "Error: download")
    /\ pc' = AfterRaise
    /\ UNCHANGED disk

-----------------------------------------------------------------------------
(* The adaptive branch, lines 185-208 *)

\* lines 187-189, up to the start of the transfer
BeginVideo ==
    /\ pc = "start"
    /\ is_adaptive
    /\ monitor' = set_ui(monitor, selected_stream.filesize, now)
    /\ emitted' = << >>
    /\ run' = [ run EXCEPT !.set_ui = @ + 1, !.began = now,
                           !.totals = Append(@, selected_stream.filesize),
                           !.zero_calls = 0,
                           !.invoked.video = @ + 1,
                           !.downloads = @ + 1, !.video = "running" ]
    /\ pc' = "video"
    /\ UNCHANGED << all_streams, audio_streams, default_filename, selected_res,
                    clean_filename, final_path, video_path, audio_path,
                    out_file, success, now, disk >>

\* line 189 returns
VideoDone ==
    /\ pc = "video"
    /\ Finish("video")
    /\ video_path' = TargetPath
    /\ pc' = "video_done"
    /\ UNCHANGED << all_streams, audio_streams, default_filename, selected_res,
                    clean_filename, final_path, audio_path, out_file, success,
                    monitor, now, emitted >>

\* line 189 raises
VideoFail ==
    /\ pc = "video"
    /\ Fail("video")
    /\ UNCHANGED << all_streams, audio_streams, default_filename, selected_res,
                    clean_filename, final_path, video_path, audio_path,
                    out_file, success, monitor, now, emitted >>

\* lines 192-194, up to the start of the transfer; best_audio.download
\* raises AttributeError when best_audio is None
BeginAudio ==
    /\ pc = "video_done"
    /\ monitor' = set_ui(monitor, audio_size, now)
    /\ emitted' = << >>
    /\ IF HasBestAudio
       THEN /\ run' = [ run EXCEPT !.set_ui = @ + 1, !.began = now,
                                  !.totals = Append(@, audio_size),
                                  !.zero_calls = 0,
                                  !.invoked.audio = @ + 1,
                                  !.downloads = @ + 1, !.audio = "running" ]
            /\ pc' = "audio"
       ELSE /\ run' = Except([ run EXCEPT !.set_ui = @ + 1, !.began = now,
                                         !.totals = Append(@, audio_size),
                                         !.zero_calls = 0 ],
                             "Error: AttributeError")
            /\ pc' = AfterRaise
    /\ UNCHANGED << all_streams, audio_streams, default_filename, selected_res,
                    clean_filename, final_path, video_path, audio_path,
                    out_file, success, now, disk >>

\* line 194 returns
AudioDone ==
    /\ pc = "audio"
    /\ Finish("audio")
    /\ audio_path' = TargetPath
    /\ pc' = "audio_done"
    /\ UNCHANGED << all_streams, audio_streams, default_filename, selected_res,
                    clean_filename, final_path, video_path, out_file, success,
                    monitor, now, emitted >>

\* line 194 raises
AudioFail ==
    /\ pc = "audio"
    /\ Fail("audio")
    /\ UNCHANGED << all_streams, audio_streams, default_filename, selected_res,
                    clean_filename, final_path, video_path, audio_path,
                    out_file, success, monitor, now, emitted >>

\* lines 197-198
Merge ==
    /\ pc = "audio_done"
    /\ \E tool \in ToolOutcomes :
         LET r == merge_audio_video(tool)
             shown == IF r.error = "none" THEN run.errors
                      ELSE Append(run.errors, r.error)
         IN  /\ disk' = ToolWrites(tool, disk, final_path)
             /\ IF r.raised = "none"
                THEN /\ success' = r.ret
                     /\ run' = [ run EXCEPT
                                   !.merge = IF r.ret THEN "ok" ELSE "failed",
                                   !.invoked.merge = @ + 1,
                                   !.tool = tool,
                                   !.errors = shown,
                                   !.written = IF final_path \in DOMAIN disk'
                                               THEN @ \cup { final_path } ELSE @ ]
                     /\ pc' = "merged"
                ELSE /\ success' = success
                     /\ run' = Except([ run EXCEPT !.merge = "raised", !.tool = tool,
                                                !.invoked.merge = @ + 1 ],
                                      "Error: merge")
                     /\ pc' = AfterRaise
    /\ UNCHANGED << all_streams, audio_streams, default_filename, selected_res,
                    clean_filename, final_path, video_path, audio_path,
                    out_file, monitor, now, emitted >>

\* line 202 left out
Cleanup_video_only ==
    /\ pc = "merged"
    /\ disk' = IF video_path \in DOMAIN disk THEN RemoveFile(disk, video_path)
               ELSE disk
    /\ pc' = "cleaned"
    /\ UNCHANGED << all_streams, audio_streams, default_filename, selected_res,
                    clean_filename, final_path, video_path, audio_path,
                    out_file, success, monitor, now, emitted, run >>

\* lines 201-202
Cleanup ==
    /\ pc = "merged"
    /\ LET d1 == IF video_path \in DOMAIN disk THEN RemoveFile(disk, video_path)
                 ELSE disk
       IN  disk' = IF audio_path \in DOMAIN d1 THEN RemoveFile(d1, audio_path)
                   ELSE d1
    /\ pc' = "cleaned"
    /\ UNCHANGED << all_streams, audio_streams, default_filename, selected_res,
                    clean_filename, final_path, video_path, audio_path,
                    out_file, success, monitor, now, emitted, run >>

\* lines 205-208 without the test of line 204
Report_unconditional ==
    /\ pc = "cleaned"
    /\ run' = [ run EXCEPT !.complete = @ + 1, !.saved_to = final_path ]
    /\ pc' = "end"
    /\ UNCHANGED << all_streams, audio_streams, default_filename, selected_res,
                    clean_filename, final_path, video_path, audio_path,
                    out_file, success, monitor, now, disk, emitted >>

\* lines 204-208
Report ==
    /\ pc = "cleaned"
    /\ run' = IF success
              THEN [ run EXCEPT !.complete = @ + 1, !.saved_to = final_path ]
              ELSE run
    /\ pc' = "end"
    /\ UNCHANGED << all_streams, audio_streams, default_filename, selected_res,
                    clean_filename, final_path, video_path, audio_path,
                    out_file, success, monitor, now, disk, emitted >>

-----------------------------------------------------------------------------
(* The progressive branch, lines 209-218 *)

\* lines 211-213, up to the start of the transfer
BeginProg ==
    /\ pc = "start"
    /\ ~is_adaptive
    /\ monitor' = set_ui(monitor, selected_stream.filesize, now)
    /\ emitted' = << >>
    /\ run' = [ run EXCEPT !.set_ui = @ + 1, !.began = now,
                           !.totals = Append(@, selected_stream.filesize),
                           !.zero_calls = 0,
                           !.invoked.prog = @ + 1,
                           !.downloads = @ + 1, !.prog = "running" ]
    /\ pc' = "prog"
    /\ UNCHANGED << all_streams, audio_streams, default_filename, selected_res,
                    clean_filename, final_path, video_path, audio_path,
                    out_file, success, now, disk >>

\* line 213 returns, lines 215-218
ProgDone ==
    /\ pc = "prog"
    /\ disk' = WriteFile(disk, TargetPath, "complete")
    /\ out_file' = TargetPath
    /\ run' = [ run EXCEPT !.prog = "ok", !.written = @ \cup { TargetPath },
                           !.complete = @ + 1, !.saved_to = out_file' ]
    /\ pc' = "end"
    /\ UNCHANGED << all_streams, audio_streams, default_filename, selected_res,
                    clean_filename, final_path, video_path, audio_path,
                    success, monitor, now, emitted >>

\* line 213 raises
ProgFail ==
    /\ pc = "prog"
    /\ Fail("prog")
    /\ UNCHANGED << all_streams, audio_streams, default_filename, selected_res,
                    clean_filename, final_path, video_path, audio_path,
                    out_file, success, monitor, now, emitted >>

-----------------------------------------------------------------------------

Next ==
    \/ Tick
    \/ Fetch
    \/ NoStreams
    \/ Click
    \/ Chunk
    \/ BeginVideo
    \/ VideoDone
    \/ VideoFail
    \/ BeginAudio
    \/ AudioDone
    \/ AudioFail
    \/ Merge
    \/ Cleanup
    \/ Report
    \/ BeginProg
    \/ ProgDone
    \/ ProgFail

Spec == Init /\ [][Next]_vars

-----------------------------------------------------------------------------
(* sanitize_filename on its own: a name is typed in, or is the title       *)
(* "Foo: Bar/Baz?", and the function is applied to it                      *)

Alphabet == Illegal \cup { "a", " " }

InitSanitize ==
    /\ pc = "name"
    /\ all_streams = << >>
    /\ audio_streams = << >>
    /\ default_filename = << >>
    /\ selected_res = None
    /\ clean_filename = << >>
    /\ final_path = NoPath
    /\ video_path = NoPath
    /\ audio_path = NoPath
    /\ out_file = NoPath
    /\ success = FALSE
    /\ monitor = NewMonitor
    /\ now = 1
    /\ disk = << >>
    /\ emitted = << >>
    /\ run = NewRun

NameChar ==
    /\ pc = "name"
    /\ Len(default_filename) < MaxNameLen
    /\ \E c \in Alphabet : default_filename' = Append(default_filename, c)
    /\ UNCHANGED << pc, all_streams, audio_streams, selected_res,
                    clean_filename, final_path, video_path, audio_path,
                    out_file, success, monitor, now, disk, emitted, run >>

NameFoo ==
    /\ pc = "name"
    /\ default_filename = << >>
    /\ default_filename' = FooTitle
    /\ UNCHANGED << pc, all_streams, audio_streams, selected_res,
                    clean_filename, final_path, video_path, audio_path,
                    out_file, success, monitor, now, disk, emitted, run >>

\* line 181
Sanitize ==
    /\ pc = "name"
    /\ clean_filename' = sanitize_filename(default_filename)
    /\ pc' = "sanitized"
    /\ UNCHANGED << all_streams, audio_streams, default_filename, selected_res,
                    final_path, video_path, audio_path, out_file, success,
                    monitor, now, disk, emitted, run >>

NextSanitize ==
    \/ NameChar
    \/ NameFoo
    \/ Sanitize

SpecSanitize == InitSanitize /\ [][NextSanitize]_vars

-----------------------------------------------------------------------------
(* The listing on its own: the provider lists any encodings in descending  *)
(* order of resolution, the dropdown is built, and a selection is followed *)
(* up to the beginning of its last download                                *)

\* pytubefix orders "720p" above "360p"
Rank(res) == CASE res = "720p" -> 2 [] res = "360p" -> 1 [] OTHER -> 0

\* the encodings a listing is made of: with or without a resolution, of
\* either kind, small or large
ListedEncodings ==
    [ resolution : { "720p", "360p", None, "" }, is_progressive : BOOLEAN,
      filesize : { 1, MaxSize } ]

\* order_by('resolution').desc(), over the streams that have a resolution
Descending(streams) ==
    \A i, j \in 1..Len(streams) :
        ( /\ i < j
          /\ Truthy(streams[i].resolution)
          /\ Truthy(streams[j].resolution) )
        => Rank(streams[i].resolution) >= Rank(streams[j].resolution)

InitCatalog ==
    /\ pc = "listing"
    /\ all_streams = << >>
    /\ audio_streams = << >>
    /\ default_filename = << >>
    /\ selected_res = None
    /\ clean_filename = << >>
    /\ final_path = NoPath
    /\ video_path = NoPath
    /\ audio_path = NoPath
    /\ out_file = NoPath
    /\ success = FALSE
    /\ monitor = NewMonitor
    /\ now = 1
    /\ disk = << >>
    /\ emitted = << >>
    /\ run = NewRun

\* line 143: the provider lists one more encoding
ListStream ==
    /\ pc = "listing"
    /\ Len(all_streams) < MaxStreams
    /\ \E e \in ListedEncodings :
         /\ Descending(Append(all_streams, e))
         /\ all_streams' = Append(all_streams, e)
    /\ UNCHANGED << pc, audio_streams, default_filename, selected_res,
                    clean_filename, final_path, video_path, audio_path,
                    out_file, success, monitor, now, disk, emitted, run >>

\* lines 139-147: the listing is complete and the page is drawn
Listed ==
    /\ pc = "listing"
    /\ \E a \in AudioCatalogs, t \in Titles :
         /\ audio_streams' = a
         /\ default_filename' = t
    /\ pc' = "select"
    /\ UNCHANGED << all_streams, selected_res, clean_filename, final_path,
                    video_path, audio_path, out_file, success, monitor, now,
                    disk, emitted, run >>

NextCatalog ==
    \/ ListStream
    \/ Listed
    \/ NoStreams
    \/ Click
    \/ BeginVideo
    \/ VideoDone
    \/ BeginAudio
    \/ BeginProg

SpecCatalog == InitCatalog /\ [][NextCatalog]_vars

-----------------------------------------------------------------------------
(* Properties *)

\* a file name with one of the two temporary prefixes
IsTemp(p) ==
    \/ HasPrefix(basename(p), TEMP_VIDEO)
    \/ HasPrefix(basename(p), TEMP_AUDIO)

AdaptiveRun == run.video # "none"

\* a progress value inside [0, 1]
InUnitInterval(q) == 0 <= q[1] /\ q[1] <= q[2]

\* 50 ms, half the throttle
BurstTicks == ThrottleTicks \div 2

\* C1: once an adaptive acquisition has ended, whatever its outcome, no file
\* with a temporary prefix remains on disk.
C1_NoTempFileRemains ==
    (pc = "end" /\ AdaptiveRun) => \A p \in DOMAIN disk : ~IsTemp(p)

\* C2: the phases run in the order video download, audio download, merge:
\* the audio download is entered only after the video download has returned,
\* the merge only after both have, and nothing is entered after a failure.
C2_PhaseOrder ==
    /\ run.audio # "none" => run.video = "ok"
    /\ run.merge # "none" => run.video = "ok" /\ run.audio = "ok"
    /\ run.video = "failed" => run.audio = "none" /\ run.merge = "none"
    /\ run.audio = "failed" => run.merge = "none"
    /\ pc \in { "audio", "audio_done", "merged", "cleaned" } => run.video = "ok"
    /\ pc \in { "audio_done", "merged", "cleaned" } => run.audio = "ok"
    /\ (\E s \in { "video", "audio", "prog" } : run[s] = "failed") => pc = "end"

C2_Witness ==
    pc = "merged" /\ run.video = "ok" /\ run.audio = "ok" /\ run.merge = "ok"

\* C3: every progress value given to the bar lies in [0, 1], whatever the
\* phase total and the bytes_remaining values.
C3_ProgressInUnitInterval ==
    \A i \in 1..Len(emitted) : InUnitInterval(emitted[i].bar)

\* C4: within a phase an event is emitted only when more than 100 ms have
\* passed since the previous emission (or the phase's beginning) or
\* bytes_remaining is 0; so emissions with bytes_remaining # 0 are more than
\* 100 ms after the emission before them, and no two of them fall within 50 ms.
C4_Throttled ==
    /\ \A i \in 1..Len(emitted) :
         LET before == IF i = 1 THEN run.began ELSE emitted[i - 1].time
         IN  \/ emitted[i].time - before > ThrottleTicks
             \/ emitted[i].bytes_remaining = 0
    /\ \A i, j \in 1..Len(emitted) :
         ( /\ i < j
           /\ emitted[i].bytes_remaining # 0
           /\ emitted[j].bytes_remaining # 0 )
         => emitted[j].time - emitted[i].time > BurstTicks

C4_Witness ==
    /\ Len(emitted) = 2
    /\ emitted[1].bytes_remaining # 0
    /\ emitted[2].bytes_remaining # 0

\* C5: with an adaptive resolution selected and no audio-only stream, the
\* acquisition stops before anything is fetched: no video download starts, no
\* file is written and no completion is reported.
C5_NoAudioAbortsEarly ==
    (selected_res # None /\ is_adaptive /\ ~HasBestAudio)
    => /\ run.video = "none"
       /\ ~run.fetched
       /\ run.written = {}
       /\ run.complete = 0

\* C6: after a merge that failed no file is at the output path.
C6_NoPartialOutput ==
    (run.merge # "none" /\ final_path \in DOMAIN disk) => run.merge = "ok"

\* C7: merge_audio_video returns and does not raise; it returns True exactly
\* when ffmpeg was spawned and exited with code 0, and sends one diagnostic
\* to the sink when it returns False.
C7_MergeReturnsBoolean ==
    run.tool # "none"
    => /\ run.merge \in { "ok", "failed" }
       /\ pc \in { "merged", "cleaned", "end" }
       /\ success <=> run.tool = "ok"
       /\ (run.merge = "ok") <=> success
       /\ IF success THEN run.errors = << >> ELSE Len(run.errors) = 1
       /\ run.tool = "absent" => run.errors = << "FFmpeg not found" >>

C7_Witness ==
    pc = "merged" /\ run.tool = "nonzero" /\ ~success

\* C8: both downloads succeeded and ffmpeg is absent: the merge fails, both
\* temporary files are deleted, no output file exists and no completion is
\* reported.
C8_ToolAbsent ==
    run.tool = "absent"
    => /\ run.video = "ok" /\ run.audio = "ok"
       /\ ~success /\ run.merge = "failed"
       /\ run.complete = 0
       /\ final_path \notin DOMAIN disk
       /\ pc = "end" => ( /\ video_path \notin DOMAIN disk
                          /\ audio_path \notin DOMAIN disk
                          /\ \A p \in DOMAIN disk : ~IsTemp(p) )

C8_Witness ==
    /\ pc = "end"
    /\ run.tool = "absent"
    /\ { video_path, audio_path } \subseteq run.written

\* C9: a successful progressive acquisition begins one phase, makes one
\* download, never merges, writes no temporary file, and reports the path
\* download folder / sanitized file name.
C9_Progressive ==
    (pc = "end" /\ run.prog = "ok")
    => /\ run.set_ui = 1
       /\ run.downloads = 1
       /\ run.merge = "none" /\ run.tool = "none"
       /\ run.video = "none" /\ run.audio = "none"
       /\ \A p \in run.written \cup DOMAIN disk : ~IsTemp(p)
       /\ run.complete = 1
       /\ run.saved_to = get_download_folder \o << "/" >>
                           \o SelectSeq(default_filename, LAMBDA c : c \notin Illegal)
       /\ run.saved_to \in DOMAIN disk

C9_Witness ==
    pc = "end" /\ run.prog = "ok" /\ run.fetched

\* the legal characters of name, in order, are exactly out
StrippedOf(name, out) ==
    LET legal == { i \in 1..Len(name) : name[i] \notin Illegal }
    IN  /\ Len(out) = Cardinality(legal)
        /\ \A i \in legal : out[Cardinality({ j \in legal : j <= i })] = name[i]

\* C10 as stated: "Foo: Bar/Baz?" becomes "Foo Bar Baz".
C10_FooBarBaz ==
    (pc = "sanitized" /\ default_filename = FooTitle)
    => clean_filename = << "F", "o", "o", " ", "B", "a", "r", " ", "B", "a", "z" >>

\* C10, amended: "Foo: Bar/Baz?" becomes "Foo BarBaz"; the result holds none
\* of < > : " / \ | ? * and is the input with exactly those stripped.
C10_Sanitized ==
    pc = "sanitized"
    => /\ \A i \in 1..Len(clean_filename) : clean_filename[i] \notin Illegal
       /\ StrippedOf(default_filename, clean_filename)
       /\ default_filename = FooTitle
              => clean_filename = << "F", "o", "o", " ", "B", "a", "r", "B", "a", "z" >>

C10_Witness ==
    /\ pc = "sanitized"
    /\ default_filename = FooTitle
    /\ clean_filename = << "F", "o", "o", " ", "B", "a", "r", "B", "a", "z" >>

\* the first stream of all_streams with resolution r
FirstAt(r) ==
    all_streams[CHOOSE k \in 1..Len(all_streams) :
                    /\ all_streams[k].resolution = r
                    /\ \A j \in 1..k - 1 : all_streams[j].resolution # r]

\* C11: the resolutions surfaced to the user hold no duplicate and no absent
\* (None or empty) resolution, and the encoding surfaced for a resolution is
\* the first one of the provider's list that carries it.
C11_Deduplicated ==
    /\ \A i, j \in 1..Len(res_options) :
         i # j => res_options[i].res # res_options[j].res
    /\ \A i \in 1..Len(res_options) : res_options[i].res \notin { None, "" }
    /\ { res_options[i].res : i \in 1..Len(res_options) } = DOMAIN resolutions
    /\ DOMAIN resolutions =
         { all_streams[k].resolution : k \in 1..Len(all_streams) } \ { None, "" }
    /\ \A r \in DOMAIN resolutions : resolutions[r] = FirstAt(r)

C11_Witness ==
    /\ pc = "select"
    /\ Len(all_streams) = 2
    /\ all_streams[1].resolution = "720p"
    /\ all_streams[2].resolution = "720p"
    /\ all_streams[1] # all_streams[2]
    /\ Len(res_options) = 1

\* C12: in a phase begun with a total of 0 every emission reports percent 0
\* and nothing is divided by 0.
C12_ZeroTotal ==
    \A i \in 1..Len(emitted) :
        emitted[i].total = 0
        => /\ emitted[i].pct[2] # 0
           /\ emitted[i].pct[1] = 0
           /\ emitted[i].bar[2] # 0
           /\ emitted[i].bar[1] = 0
           /\ emitted[i].speed[2] # 0

C12_Witness ==
    /\ Len(emitted) = 2
    /\ monitor.total_size = 0
    /\ emitted[1].total = 0 /\ emitted[1].bytes_remaining > 0
    /\ emitted[2].total = 0 /\ emitted[2].bytes_remaining = 0

\* the emissions of the phase with bytes_remaining = 0
ZeroEmissions == { i \in 1..Len(emitted) : emitted[i].bytes_remaining = 0 }

\* C13: in a phase with total > 0 every on_progress call with
\* bytes_remaining = 0 emits, whatever the time since the emission before,
\* and the event reports percent 1.0.
C13_FinalEmission ==
    /\ run.zero_calls = Cardinality(ZeroEmissions)
    /\ \A i \in ZeroEmissions :
         emitted[i].total > 0
         => /\ emitted[i].pct = << emitted[i].total, emitted[i].total >>
            /\ emitted[i].bar[1] = emitted[i].bar[2]
    /\ (emitted # << >> /\ monitor.last_bytes = 0 /\ monitor.total_size > 0)
         => emitted[Len(emitted)].bar[1] = emitted[Len(emitted)].bar[2]

C13_Witness ==
    /\ emitted # << >>
    /\ emitted[Len(emitted)].bytes_remaining = 0
    /\ emitted[Len(emitted)].total > 0
    /\ emitted[Len(emitted)].time_diff <= ThrottleTicks
    /\ run.zero_calls = 1

\* C14: an acquisition ends with exactly one terminal status, completion or
\* error and never both, and each download and the merge are invoked at most
\* once.
C14_OneTerminalStatus ==
    /\ \A step \in { "video", "audio", "merge", "prog" } : run.invoked[step] <= 1
    /\ run.complete + Len(run.errors) <= 1
    /\ (pc = "end" /\ run.set_ui > 0) => run.complete + Len(run.errors) = 1
    /\ (pc # "end" /\ run.set_ui > 0 /\ run.merge # "failed")
         => run.complete + Len(run.errors) = 0

C14_Witness ==
    /\ pc = "end"
    /\ run.merge = "failed"
    /\ Len(run.errors) = 1
    /\ run.complete = 0

\* the time and the bytes_remaining sampled before emission i
SampleTimeBefore(i) == IF i = 1 THEN run.began ELSE emitted[i - 1].time
SampleBytesBefore(i) ==
    IF i = 1 THEN run.totals[Len(run.totals)] ELSE emitted[i - 1].bytes_remaining

RECURSIVE SumBytesDiff(_)
SumBytesDiff(n) ==
    IF n = 0 THEN 0 ELSE emitted[n].bytes_diff + SumBytesDiff(n - 1)

\* C15: after an emission last_time and last_bytes are those of that call,
\* and a call that does not emit changes nothing; so the byte deltas of a
\* phase's emissions are back to back and sum to the total minus the
\* bytes_remaining of the latest emission.
C15_SamplesTrackEmissions ==
    run.set_ui > 0
    => /\ monitor.total_size = run.totals[Len(run.totals)]
       /\ emitted = << >>
            => /\ monitor.last_time = run.began
               /\ monitor.last_bytes = monitor.total_size
       /\ emitted # << >>
            => /\ monitor.last_time = emitted[Len(emitted)].time
               /\ monitor.last_bytes = emitted[Len(emitted)].bytes_remaining
               /\ SumBytesDiff(Len(emitted))
                    = monitor.total_size - emitted[Len(emitted)].bytes_remaining
       /\ \A i \in 1..Len(emitted) :
            /\ emitted[i].time_diff = emitted[i].time - SampleTimeBefore(i)
            /\ emitted[i].bytes_diff
                 = SampleBytesBefore(i) - emitted[i].bytes_remaining

C15_Witness ==
    /\ Len(emitted) = 2
    /\ emitted[1].bytes_diff # 0
    /\ emitted[2].bytes_diff # 0
    /\ emitted[2].time > emitted[1].time
    /\ now > monitor.last_time

\* C16: beginning a phase with total T sets total_size = T, last_bytes = T
\* and last_time = now whatever the monitor held, and the first emission of
\* the audio phase is computed from the audio total and the audio phase's
\* start only.
C16_PhaseReset ==
    /\ (Downloading /\ emitted = << >>)
         => monitor = [ bar |-> TRUE,
                        total_size |-> run.totals[Len(run.totals)],
                        last_time |-> run.began,
                        last_bytes |-> run.totals[Len(run.totals)] ]
    /\ (run.audio # "none" /\ emitted # << >>)
         => LET first == emitted[1]
                left  == first.bytes_remaining
            IN  /\ first.total = audio_size
                /\ first.downloaded = audio_size - left
                /\ first.pct = IF audio_size > 0
                               THEN << audio_size - left, audio_size >>
                               ELSE << 0, 1 >>
                /\ first.speed = IF first.time > run.began
                                 THEN << audio_size - left, first.time - run.began >>
                                 ELSE << 0, 1 >>

C16_Witness ==
    /\ pc = "audio"
    /\ emitted # << >>
    /\ emitted[1].time > run.began
    /\ emitted[1].bytes_remaining # audio_size
    /\ run.totals[1] # run.totals[2]

\* C17: each on_progress call with bytes_remaining = 0 emits, also when the
\* phase has emitted at 100% already, so one phase can send more than one
\* emission at 100%.
C17_EveryZeroCallEmits ==
    [][ run'.zero_calls = run.zero_calls + 1
        => /\ Len(emitted') = Len(emitted) + 1
           /\ emitted'[Len(emitted')].bytes_remaining = 0
           /\ emitted'[Len(emitted')].time = now ]_vars

C17_Witness ==
    /\ Len(emitted) = 2
    /\ emitted[1].total > 0
    /\ emitted[1].bytes_remaining = 0 /\ emitted[1].bar = << emitted[1].total, emitted[1].total >>
    /\ emitted[2].bytes_remaining = 0 /\ emitted[2].bar = emitted[1].bar
    /\ emitted[2].time = emitted[1].time

\* C18: an emission made with an elapsed time of 0 or less, which happens
\* only when bytes_remaining is 0, reports the throughput 0 without dividing;
\* any other reports (bytes_remaining before - bytes_remaining) / elapsed.
C18_Throughput ==
    \A i \in 1..Len(emitted) :
        LET elapsed == emitted[i].time - SampleTimeBefore(i)
        IN  /\ emitted[i].speed[2] # 0
            /\ elapsed <= 0
                 => /\ emitted[i].speed = << 0, 1 >>
                    /\ emitted[i].bytes_remaining = 0
            /\ elapsed > 0
                 => emitted[i].speed =
                      << SampleBytesBefore(i) - emitted[i].bytes_remaining, elapsed >>

C18_Witness ==
    /\ Len(emitted) = 2
    /\ emitted[1].time > run.began
    /\ emitted[1].bytes_remaining # run.totals[Len(run.totals)]
    /\ emitted[2].time = emitted[1].time

\* C19: the estimate shown for a resolution is the encoding's size plus the
\* size of the one best audio track when the encoding is adaptive, and the
\* encoding's size when it is progressive; for an adaptive selection it is
\* the sum of the totals the two download phases are begun with.
C19_SizeEstimate ==
    LET audio == IF audio_streams = << >> THEN 0 ELSE audio_streams[1].filesize
    IN  /\ \A i \in 1..Len(res_options) :
             LET stream == FirstAt(res_options[i].res)
             IN  /\ res_options[i].high_res = ~stream.is_progressive
                 /\ res_options[i].est_size =
                      IF stream.is_progressive THEN stream.filesize
                      ELSE stream.filesize + audio
        /\ \A i \in 1..Len(res_options) :
             ( /\ res_options[i].res = selected_res
               /\ Len(run.totals) = IF res_options[i].high_res THEN 2 ELSE 1 )
             => res_options[i].est_size =
                  IF res_options[i].high_res THEN run.totals[1] + run.totals[2]
                  ELSE run.totals[1]

C19_Witness ==
    /\ pc = "audio"
    /\ Len(res_options) = 2
    /\ res_options[1].high_res /\ res_options[2].high_res
    /\ res_options[1].est_size # res_options[2].est_size
    /\ Len(run.totals) = 2
    /\ run.totals[2] > 0

\* C20: on the adaptive path completion is reported only when the merge
\* returned True and only once both temporary files are deleted.
C20_CompletionAfterCleanup ==
    (AdaptiveRun /\ run.complete > 0)
    => /\ success
       /\ run.merge = "ok"
       /\ run.tool = "ok"
       /\ video_path \notin DOMAIN disk
       /\ audio_path \notin DOMAIN disk
       /\ \A p \in DOMAIN disk : ~IsTemp(p)
       /\ run.saved_to = final_path
       /\ final_path \in DOMAIN disk

C20_Witness ==
    /\ AdaptiveRun
    /\ run.complete = 1
    /\ { video_path, audio_path } \subseteq run.written
    /\ video_path # NoPath /\ audio_path # NoPath

====
